---------------------------- MODULE Spec2Model ----------------------------
(***************************************************************************)
(* takya_notifier: the section parser (src/src/parsers.rs) and the         *)
(* reconciliation run of main (src/src/main.rs), with the notification     *)
(* futures of fcm::Client (src/src/fcm/mod.rs).                            *)
(*                                                                         *)
(* Option<T> is modelled as a sequence of length 0 (None) or 1 (Some).     *)
(***************************************************************************)
EXTENDS Integers, Sequences, FiniteSets, TLC

\* ------------------------------------------------------------------ bounds
MaxScan == 2      \* sections in one scan
MaxRuns == 2      \* runs of the program in SpecRerun
MaxOOB == 1       \* out-of-band deletions in SpecOOB
MaxLines == 5     \* lines of the text handed to parse_items
MaxRestarts == 1  \* times the line iterator resumes after it has ended


VARIABLES
    scan,           \* the Vec<ItemSection> parse_items returned to main
    store,          \* the item table: order_id -> row, DOMAIN = the keys present
    pc,             \* position of main: scan, list, delete, sending, done, failed
    idx,            \* position of the for loop over the scan (1-based)
    order_ids,      \* main.rs:87
    new_items,      \* main.rs:88
    notifications,  \* main.rs:85, the notification each collected future carries
    sends,          \* state of each collected future: created, inflight, ok, err
    deleted_items,  \* main.rs:140
    didx,           \* position of the for loop over deleted_items (1-based)
    ops,            \* history: the mutating statements issued in this run, in order
    err,            \* none, or why main returned Err: the store operation that
                    \* failed (lookup, update, insert, load, delete), dup (the
                    \* INSERT was rejected for a duplicate key) or notfound
    run,            \* history: number of the current run
    prev,           \* history: how the previous run ended: none, done, failed
    store0,         \* history: the table when the current run started
    oob,            \* history: out-of-band deletions so far
    past,           \* history: the notifications of the earlier runs that
                    \* returned Ok, in order
    lines,          \* parse_items: the text lines handed to the parser
    pos,            \* parse_items: lines already taken from the iterator
    items,          \* parse_items: the sections pushed so far
    ppc,            \* parse_items: seek, name, blank, price, emit, done, panic, idle
    item_name_line, \* parse_items: the name line of the block being read
    price_line,     \* parse_items: the price line of the block being read
    ended,          \* parse_items: lines.next() has returned None
    restarts,       \* history: times the iterator resumed from the first line
    warnings        \* history: the reasons given to warn_corrupted_section

rvars == <<scan, store, pc, idx, order_ids, new_items, notifications, sends,
           deleted_items, didx, ops, err, run, prev, store0, oob, past>>

pvars == <<lines, pos, items, ppc, item_name_line, price_line, ended,
           restarts, warnings>>

vars == <<rvars, pvars>>

\* ----------------------------------------------------------------- basics
None == <<>>
Some(x) == <<x>>
IsSome(o) == Len(o) = 1

Range(s) == { s[i] : i \in 1..Len(s) }

Perms(S) ==
    { p \in [1..Cardinality(S) -> S] : \A i, j \in 1..Cardinality(S) :
                                           p[i] = p[j] => i = j }

Without(t, id) == [k \in DOMAIN t \ {id} |-> t[k]]

\* ------------------------------------------------------------------ text
(***************************************************************************)
(* A line is a sequence of tokens.  A token is one character, written as   *)
(* itself, except that a maximal run of ASCII letters is one token (a      *)
(* word) and each of the non-ASCII literals of the patterns is one token:  *)
(*   STAR "★", SOLD_WORD "売約済み", PRICE_WORD "販売価格", YEN "円".      *)
(* NL is a line break, UDIGIT a decimal digit outside ASCII (U+0663).      *)
(***************************************************************************)
STAR == "<star>"
SOLD_WORD == "<sold>"
PRICE_WORD == "<price>"
YEN == "<yen>"
NL == "<nl>"
UDIGIT == "<u+0663>"

AsciiDigits == <<"0", "1", "2", "3", "4", "5", "6", "7", "8", "9">>

Punctuation == {"(", ")", "#", "|", "-", ",", ":", "_", " ", NL,
                STAR, SOLD_WORD, PRICE_WORD, YEN, UDIGIT}

IsAsciiDigit(c) == c \in Range(AsciiDigits)

\* \d of the regex crate is Unicode-aware
IsDigit(c) == IsAsciiDigit(c) \/ c = UDIGIT

\* [A-Za-z]
IsWord(c) == c \notin Punctuation /\ ~IsAsciiDigit(c)

\* [A-Za-z ]
IsNameChar(c) == IsWord(c) \/ c = " "

\* [-A-Za-z ]
IsExteriorChar(c) == IsNameChar(c) \/ c = "-"

\* [0-9,]
IsPriceChar(c) == IsAsciiDigit(c) \/ c = ","

IsSpace(c) == c \in {" ", NL}

HasLit(s, i, lit) ==
    i >= 1 /\ i + Len(lit) - 1 <= Len(s) /\ SubSeq(s, i, i + Len(lit) - 1) = lit

\* the last position of the longest run of digits that starts at i (i - 1 when
\* s[i] is no digit): how the greedy \d+ matches
DigitsEnd(s, i) ==
    CHOOSE j \in (i - 1)..Len(s) :
        /\ \A k \in i..j : IsDigit(s[k])
        /\ j = Len(s) \/ ~IsDigit(s[j + 1])

\* the same for the greedy [0-9,]+
PriceEnd(s, i) ==
    CHOOSE j \in (i - 1)..Len(s) :
        /\ \A k \in i..j : IsPriceChar(s[k])
        /\ j = Len(s) \/ ~IsPriceChar(s[j + 1])

\* the least element of a non-empty set of positions: the leftmost match
Least(S) == CHOOSE i \in S : \A j \in S : i <= j

\* str::trim
Trim(s) ==
    IF \A k \in 1..Len(s) : IsSpace(s[k]) THEN <<>>
    ELSE SubSeq(s, Least({ k \in 1..Len(s) : ~IsSpace(s[k]) }),
                   CHOOSE k \in 1..Len(s) :
                       ~IsSpace(s[k]) /\ \A m \in (k + 1)..Len(s) : IsSpace(s[m]))

SEPARATOR == <<" ", "|", " ">>

\* str::split(" | "): the matches are taken left to right and do not overlap
RECURSIVE SplitFrom(_, _, _)
SplitFrom(s, start, i) ==
    IF i > Len(s) THEN <<SubSeq(s, start, Len(s))>>
    ELSE IF HasLit(s, i, SEPARATOR)
         THEN <<SubSeq(s, start, i - 1)>> \o SplitFrom(s, i + 3, i + 3)
         ELSE SplitFrom(s, start, i + 1)

Split(s) == SplitFrom(s, 1, 1)

DigitValue(c) == (CHOOSE k \in 1..10 : AsciiDigits[k] = c) - 1

RECURSIVE StripZeros(_)
StripZeros(ds) ==
    IF Len(ds) > 1 /\ ds[1] = "0" THEN StripZeros(Tail(ds)) ELSE ds

RECURSIVE Decimal(_)
Decimal(ds) ==
    IF ds = <<>> THEN 0
    ELSE 10 * Decimal(SubSeq(ds, 1, Len(ds) - 1)) + DigitValue(ds[Len(ds)])

I32_MAX == 2147483647

\* the value of a digit string without leading zeros, unless it overflows
ParseDigits(z) ==
    IF Len(z) > 10 THEN None
    ELSE IF Len(z) = 10
            /\ \/ Decimal(SubSeq(z, 1, 9)) > I32_MAX \div 10
               \/ /\ Decimal(SubSeq(z, 1, 9)) = I32_MAX \div 10
                  /\ DigitValue(z[10]) > I32_MAX % 10
         THEN None
    ELSE Some(Decimal(z))

\* str::parse::<i32> of a string without sign: None is a ParseIntError (the
\* string is empty, holds a character that is no ASCII digit, or overflows)
ParseI32(ds) ==
    IF ds = <<>> \/ \E k \in 1..Len(ds) : ~IsAsciiDigit(ds[k]) THEN None
    ELSE ParseDigits(StripZeros(ds))

\* SOLD_MATCHER = \(売約済み\) #(\d+), searched anywhere in the segment
SOLD_LIT == <<"(", SOLD_WORD, ")", " ", "#">>

SoldAt(s, i) == HasLit(s, i, SOLD_LIT) /\ i + 5 <= Len(s) /\ IsDigit(s[i + 5])

\* the captures of the leftmost match: <<digits>>, or None
SOLD_MATCHER(s) ==
    LET at == { i \in 1..Len(s) : SoldAt(s, i) }
    IN IF at = {} THEN None
       ELSE LET i == Least(at)
            IN Some(<<SubSeq(s, i + 5, DigitsEnd(s, i + 5))>>)

\* VANILLA_MATCHER = ([A-Za-z ]+) \(Vanilla\) #(\d+)
VANILLA_LIT == <<" ", "(", "Vanilla", ")", " ", "#">>

\* a match that starts at i has its first group end right before position k
VanillaAt(s, i, k) ==
    /\ i < k /\ \A m \in i..(k - 1) : IsNameChar(s[m])
    /\ HasLit(s, k, VANILLA_LIT)
    /\ k + 6 <= Len(s) /\ IsDigit(s[k + 6])

VANILLA_MATCHER(s) ==
    LET at == { i \in 1..Len(s) : \E k \in 1..Len(s) : VanillaAt(s, i, k) }
    IN IF at = {} THEN None
       ELSE LET i == Least(at)
                k == CHOOSE k \in 1..Len(s) : VanillaAt(s, i, k)
            IN Some(<<SubSeq(s, i, k - 1),
                      SubSeq(s, k + 6, DigitsEnd(s, k + 6))>>)

\* ITEM_MATCHER = ([A-Za-z ]+) \(([-A-Za-z ]+)\) #(\d+)
\* a match that starts at i: group 1 ends before k, group 2 is (k+2)..(m-1)
ItemAt(s, i, k, m) ==
    /\ i < k /\ \A n \in i..(k - 1) : IsNameChar(s[n])
    /\ HasLit(s, k, <<" ", "(">>)
    /\ k + 2 < m /\ \A n \in (k + 2)..(m - 1) : IsExteriorChar(s[n])
    /\ HasLit(s, m, <<")", " ", "#">>)
    /\ m + 3 <= Len(s) /\ IsDigit(s[m + 3])

ITEM_MATCHER(s) ==
    LET P == (1..Len(s)) \X (1..Len(s))
        at == { i \in 1..Len(s) : \E x \in P : ItemAt(s, i, x[1], x[2]) }
    IN IF at = {} THEN None
       ELSE LET i == Least(at)
                x == CHOOSE x \in P : ItemAt(s, i, x[1], x[2])
            IN Some(<<SubSeq(s, i, x[1] - 1),
                      SubSeq(s, x[1] + 2, x[2] - 1),
                      SubSeq(s, x[2] + 3, DigitsEnd(s, x[2] + 3))>>)

\* PRICE_MATCHER = 販売価格: ([0-9,]+)円 *
PriceAt(s, i) ==
    /\ HasLit(s, i, <<PRICE_WORD, ":", " ">>)
    /\ PriceEnd(s, i + 3) >= i + 3
    /\ HasLit(s, PriceEnd(s, i + 3) + 1, <<YEN>>)

PRICE_MATCHER(s) ==
    LET at == { i \in 1..Len(s) : PriceAt(s, i) }
    IN IF at = {} THEN None
       ELSE LET i == Least(at)
            IN Some(<<SubSeq(s, i + 3, PriceEnd(s, i + 3))>>)

\* mutant: from_str matches the names of the variants
Exterior_from_str_Codes(s) ==
    IF s \in {<<"FN">>, <<"MW">>, <<"FT">>, <<"WW">>, <<"BS">>}
    THEN Some(s[1]) ELSE None

\* models.rs: Exterior::from_str matches the strum serialize strings
Exterior_from_str(s) ==
    CASE s = <<"Factory", " ", "New">> -> Some("FN")
      [] s = <<"Minimal", " ", "Wear">> -> Some("MW")
      [] s = <<"Field", "-", "Tested">> -> Some("FT")
      [] s = <<"Well", "-", "Worn">> -> Some("WW")
      [] s = <<"Battle", "-", "Scarred">> -> Some("BS")
      [] OTHER -> None

STATTRAK == <<"StatTrak", " ">>

Ok(v) == [tag |-> "ok", v |-> v]
Err(e, arg) == [tag |-> "err", error |-> e, arg |-> arg]
Panic == [tag |-> "panic"]

\* parsers.rs:102, 108, 127: order_id = caps[n].parse()?
Fields(name, kind, exterior, digits, parsed) ==
    IF IsSome(parsed)
    THEN Ok([name |-> name, kind |-> kind, exterior |-> exterior,
             order_id |-> parsed[1]])
    ELSE Err("InvalidNumber", digits)

\* parsers.rs:99-110: one segment, the sold marker tried before the vanilla item
SoldOrVanilla(name_line, sold_caps, caps) ==
    IF IsSome(sold_caps)
    THEN Fields(None, None, None, sold_caps[1][1], ParseI32(sold_caps[1][1]))
    ELSE IF IsSome(caps)
         THEN Fields(Some(caps[1][1]), None, None, caps[1][2],
                     ParseI32(caps[1][2]))
         ELSE Err("InvalidItemFormat", name_line)

\* parsers.rs:118-127
WithExterior(name, caps, exterior) ==
    IF IsSome(exterior)
    THEN Fields(Some(name), Some(caps[1]), exterior, caps[3], ParseI32(caps[3]))
    ELSE Err("InvalidExterior", caps[2])

\* parsers.rs:111-128: two segments
FullItem(name_line, name, caps) ==
    IF IsSome(caps)
    THEN WithExterior(name, caps[1], Exterior_from_str(caps[1][2]))
    ELSE Err("InvalidItemFormat", name_line)

\* parsers.rs:97-132: the name, kind, exterior and order id of the name line
ByShape(name_line, v) ==
    IF Len(v) = 1
    THEN SoldOrVanilla(name_line, SOLD_MATCHER(v[1]), VANILLA_MATCHER(v[1]))
    ELSE IF Len(v) = 2
         THEN FullItem(name_line, v[1], ITEM_MATCHER(v[2]))
         ELSE Err("InvalidItemFormat", name_line)

NameFields(name_line) == ByShape(name_line, Split(name_line))

\* parsers.rs:134-136: Option::map(trim_and_own)
TrimOpt(o) == IF IsSome(o) THEN Some(Trim(o[1])) ELSE None

StartsWith(s, prefix) == HasLit(s, 1, prefix)

\* parsers.rs:138-149
IsStatTrak(name) == IsSome(name) /\ StartsWith(name[1], STATTRAK)

StripStatTrak(name) ==
    IF IsStatTrak(name)
    THEN Some(SubSeq(name[1], Len(STATTRAK) + 1, Len(name[1])))
    ELSE name

\* parsers.rs:159-179
MakeSection(order_id, name, kind, exterior, price) ==
    IF IsSome(name)
    THEN Ok([item |-> Some([order_id |-> order_id,
                            name |-> StripStatTrak(name)[1],
                            kind |-> kind,
                            exterior |-> exterior,
                            price |-> price,
                            has_sold |-> FALSE,
                            is_stattrak |-> IsStatTrak(name)]),
             order_id |-> order_id,
             price |-> price])
    ELSE Ok([item |-> None, order_id |-> order_id, price |-> price])

\* parsers.rs:156: (caps[1]).replace(',', "").parse()?
WithPrice(f, digits, price) ==
    IF IsSome(price)
    THEN MakeSection(f.order_id, TrimOpt(f.name), TrimOpt(f.kind),
                     f.exterior, price[1])
    ELSE Err("InvalidNumber", digits)

StripCommas(s) == SelectSeq(s, LAMBDA c : c # ",")

\* parsers.rs:134-157: the name line is settled before the price line is read
AfterName(head, caps) ==
    IF head.tag = "err" THEN head
    ELSE IF IsSome(caps)
         THEN WithPrice(head.v, StripCommas(caps[1][1]),
                        ParseI32(StripCommas(caps[1][1])))
         ELSE Panic

\* parsers.rs:87-180
parse_item_section(name_line, price_str) ==
    AfterName(NameFields(name_line), PRICE_MATCHER(price_str))

\* ------------------------------------------------------------- data model
\* the name lines and price lines of the pages the runs are explored on:
\* for each order id a sold marker, a vanilla item and a full item, and two
\* prices
OrderIds == {1, 2}

SoldLine(id) == <<"(", SOLD_WORD, ")", " ", "#", AsciiDigits[id + 1]>>

VanillaLine(id) ==
    <<"Karambit", " ", "(", "Vanilla", ")", " ", "#", AsciiDigits[id + 1]>>

FullLine(id) ==
    <<"StatTrak", " ", "AWP", " ", "|", " ", "Asiimov", " ", "(", "Field", "-",
      "Tested", ")", " ", "#", AsciiDigits[id + 1]>>

ScanNameLines ==
    UNION { {SoldLine(id), VanillaLine(id), FullLine(id)} : id \in OrderIds }

ScanPriceLines ==
    { <<PRICE_WORD, ":", " ", "1", ",", "0", "0", "0", YEN>>,
      <<PRICE_WORD, ":", " ", "2", "5", "0", "0", YEN, " ">> }

\* the sections parse_items can hand to main
Sections ==
    { parse_item_section(x[1], x[2]).v : x \in ScanNameLines \X ScanPriceLines }

Scans == UNION { [1..n -> Sections] : n \in 0..MaxScan }

\* the rows of the table: what an earlier run inserted, sold or not
Rows ==
    { [s.item[1] EXCEPT !.has_sold = b] :
        s \in { t \in Sections : IsSome(t.item) }, b \in BOOLEAN }

Stores ==
    UNION { { t \in [K -> Rows] : \A k \in K : t[k].order_id = k } :
              K \in SUBSET OrderIds }

\* impl Display for Item
Display(item) ==
    item.name \o SEPARATOR \o (IF IsSome(item.kind) THEN item.kind[1] ELSE <<"Vanilla">>)

\* ------------------------------------------------------------ store model
\* table::item.filter(order_id.eq(id)).first(&conn).optional()
Lookup(t, id) == IF id \in DOMAIN t THEN Some(t[id]) ELSE None

\* mutant: the has_sold column is left out of the changeset
UpdateAll_KeepSold(t, item) ==
    IF item.order_id \in DOMAIN t
    THEN [t EXCEPT ![item.order_id] =
              [item EXCEPT !.has_sold = t[item.order_id].has_sold]]
    ELSE t

\* mutant: the exterior column is left out of the changeset
UpdateAll_KeepExterior(t, item) ==
    IF item.order_id \in DOMAIN t
    THEN [t EXCEPT ![item.order_id] = [item EXCEPT !.exterior = t[item.order_id].exterior]]
    ELSE t

\* diesel::update(&found_item).set(&found_item): every column but the key
UpdateAll(t, item) ==
    IF item.order_id \in DOMAIN t THEN [t EXCEPT ![item.order_id] = item] ELSE t

\* diesel::update(&db_item).set((has_sold.eq(true), price.eq(p)))
UpdateSold(t, id, p) ==
    IF id \in DOMAIN t
    THEN [t EXCEPT ![id] = [@ EXCEPT !.has_sold = TRUE, !.price = p]]
    ELSE t

\* one INSERT of several rows into a table whose primary key is order_id:
\* it is rejected as a whole when two rows, or a row and the table, share a key
InsertRejected(t, rows) ==
    \/ \E i, j \in 1..Len(rows) : i # j /\ rows[i].order_id = rows[j].order_id
    \/ \E i \in 1..Len(rows) : rows[i].order_id \in DOMAIN t

\* mutant: the INSERT reports success and stores nothing
InsertAll_Nothing(t, rows) == t

\* main.rs:133-137: the rows are added to the table
InsertAll(t, rows) ==
    [k \in DOMAIN t \cup { rows[i].order_id : i \in 1..Len(rows) } |->
        IF k \in DOMAIN t THEN t[k]
        ELSE rows[CHOOSE i \in 1..Len(rows) : rows[i].order_id = k] ]

\* ------------------------------------------------------------------ main
\* mutant: the request is sent as soon as the notification is built
NewFuture_Eager == "inflight"

\* fcm::Client::send_notification is an async fn: calling it builds a future
\* that does nothing until it is polled
NewFuture == "created"

\* mutant: every notification is handed to a task that sends it at once
Futures_Spawned(n) == [i \in 1..n |-> "inflight"]

\* main.rs:102, 112, 122, 151: the futures pushed for n notifications
Futures(n) == [i \in 1..n |-> NewFuture]

\* mutant: only a rise of the price counts as a change
PriceChanged_OnlyRise(found, db) == found.price > db.price

\* main.rs:100
PriceChanged(found, db) == found.price # db.price

\* main.rs:111
NotYetSold(db) == ~db.has_sold

\* the notifications main builds; id is history (the title carries no order id)
PriceEvent(found, db) ==
    [type |-> "price_changed", id |-> found.order_id, title |-> Display(found),
     body |-> <<db.price, found.price>>]

SoldEvent(db) ==
    [type |-> "sold", id |-> db.order_id, title |-> Display(db), body |-> <<>>]

NewEvent(found) ==
    [type |-> "new", id |-> found.order_id, title |-> Display(found), body |-> <<>>]

\* mutant: the deletion loop announces the row as sold
RemovedEvent_AsSold(item) ==
    [type |-> "sold", id |-> item.order_id, title |-> Display(item), body |-> <<>>]

\* main.rs:151-153
RemovedEvent(item) ==
    [type |-> "removed", id |-> item.order_id, title |-> Display(item), body |-> <<>>]

NoPlan == [events |-> <<>>, stmt |-> <<>>, staged |-> <<>>]

\* mutant: a sold marker without a row is announced as sold
UntrackedPlan_Notify(found) ==
    [events |-> <<[type |-> "sold", id |-> found.order_id, title |-> <<>>,
                   body |-> <<>>]>>,
     stmt |-> <<>>, staged |-> <<>>]

\* main.rs:127-129: a sold marker without a row, nothing is done
UntrackedPlan(found) == NoPlan

\* main.rs:98-130: what one section makes main push, execute and stage
SectionPlan(found, db) ==
    IF IsSome(db)
    THEN IF IsSome(found.item)
         THEN [events |-> IF PriceChanged(found.item[1], db[1])
                          THEN <<PriceEvent(found.item[1], db[1])>> ELSE <<>>,
               stmt |-> <<[op |-> "update", id |-> found.item[1].order_id,
                           row |-> found.item[1]]>>,
               staged |-> <<>>]
         ELSE IF NotYetSold(db[1])
              THEN [events |-> <<SoldEvent(db[1])>>,
                    stmt |-> <<[op |-> "mark_sold", id |-> db[1].order_id,
                                price |-> found.price]>>,
                    staged |-> <<>>]
              ELSE NoPlan
    ELSE IF IsSome(found.item)
         THEN [events |-> <<NewEvent(found.item[1])>>, stmt |-> <<>>,
               staged |-> <<found.item[1]>>]
         ELSE UntrackedPlan(found)

\* the effect of the statements of the scan loop on the table
Apply(t, stmt) ==
    IF stmt = <<>> THEN t
    ELSE IF stmt[1].op = "update" THEN UpdateAll(t, stmt[1].row)
    ELSE UpdateSold(t, stmt[1].id, stmt[1].price)

\* mutant: retain keeps the keys that were seen
DeletionList_Inverted(keys, seen) == SelectSeq(keys, LAMBDA x : x \in Range(seen))

\* main.rs:141
DeletionList(keys, seen) == SelectSeq(keys, LAMBDA x : x \notin Range(seen))

\* join_all resolves when every future has resolved
JoinAllReady(s) == \A i \in 1..Len(s) : s[i] \in {"ok", "err"}

\* mutant: a failed send fails the run
RunResult_Propagate(s) == IF \E i \in 1..Len(s) : s[i] = "err" THEN "send" ELSE "none"

\* main.rs:162-166: the Vec of results of join_all is dropped, main returns Ok(())
RunResult(s) == "none"

\* mutant: the error is noted and main stays where it is
Abort_Continue(e) == pc' = pc /\ err' = e

\* the ? operator: main returns the error
Abort(e) == pc' = "failed" /\ err' = e

\* main.rs:90-131, one iteration of the loop over the scan
ScanStep ==
    /\ pc = "scan" /\ idx <= Len(scan)
    /\ LET found == scan[idx]
           db == Lookup(store, found.order_id)
           plan == SectionPlan(found, db)
       IN /\ order_ids' = Append(order_ids, found.order_id)
          /\ \E lookup_ok, stmt_ok \in BOOLEAN :
                IF ~lookup_ok
                THEN /\ Abort("lookup")
                     /\ UNCHANGED <<store, idx, new_items, notifications, sends, ops>>
                ELSE /\ notifications' = notifications \o plan.events
                     /\ sends' = sends \o Futures(Len(plan.events))
                     /\ ops' = ops \o plan.stmt
                     /\ IF plan.stmt # <<>> /\ ~stmt_ok
                        THEN /\ Abort("update")
                             /\ UNCHANGED <<store, idx, new_items>>
                        ELSE /\ store' = Apply(store, plan.stmt)
                             /\ new_items' = new_items \o plan.staged
                             /\ idx' = idx + 1
                             /\ UNCHANGED <<pc, err>>
    /\ UNCHANGED <<scan, deleted_items, didx, run, prev, store0, oob, past, pvars>>

\* main.rs:133-137
BatchInsert ==
    /\ pc = "scan" /\ idx > Len(scan)
    /\ IF new_items = <<>>
       THEN pc' = "list" /\ UNCHANGED <<store, ops, err>>
       ELSE /\ ops' = Append(ops, [op |-> "insert", rows |-> new_items])
            /\ \E insert_ok \in BOOLEAN :
                  IF ~insert_ok THEN Abort("insert") /\ UNCHANGED store
                  ELSE IF InsertRejected(store, new_items)
                       THEN Abort("dup") /\ UNCHANGED store
                       ELSE /\ store' = InsertAll(store, new_items)
                            /\ pc' = "list"
                            /\ UNCHANGED err
    /\ UNCHANGED <<scan, idx, order_ids, new_items, notifications, sends,
                   deleted_items, didx, run, prev, store0, oob, past, pvars>>

\* main.rs:140-141; a SELECT without ORDER BY returns the keys in any order
ListKeys ==
    /\ pc = "list"
    /\ \E load_ok \in BOOLEAN :
          IF ~load_ok THEN Abort("load") /\ UNCHANGED <<deleted_items, didx>>
          ELSE \E keys \in Perms(DOMAIN store) :
                  /\ deleted_items' = DeletionList(keys, order_ids)
                  /\ didx' = 1
                  /\ pc' = "delete"
                  /\ UNCHANGED err
    /\ UNCHANGED <<scan, store, idx, order_ids, new_items, notifications, sends,
                   ops, run, prev, store0, oob, past, pvars>>

\* main.rs:144-157, one iteration of the loop over deleted_items
DeleteStep ==
    /\ pc = "delete" /\ didx <= Len(deleted_items)
    /\ LET id == deleted_items[didx]
           item == Lookup(store, id)
       IN \E lookup_ok, delete_ok \in BOOLEAN :
             IF ~lookup_ok
             THEN Abort("lookup") /\ UNCHANGED <<store, ops, notifications, sends, didx>>
             ELSE /\ ops' = Append(ops, [op |-> "delete", id |-> id])
                  /\ IF ~delete_ok
                     THEN Abort("delete") /\ UNCHANGED <<store, notifications, sends, didx>>
                     ELSE /\ store' = Without(store, id)
                          /\ IF IsSome(item)
                             THEN /\ notifications' =
                                        Append(notifications, RemovedEvent(item[1]))
                                  /\ sends' = sends \o Futures(1)
                                  /\ didx' = didx + 1
                                  /\ UNCHANGED <<pc, err>>
                             ELSE /\ Abort("notfound")
                                  /\ UNCHANGED <<notifications, sends, didx>>
    /\ UNCHANGED <<scan, idx, order_ids, new_items, deleted_items, run, prev,
                   store0, oob, past, pvars>>

\* main.rs:160-162: join_all polls every collected future, which sends its request
Dispatch ==
    /\ pc = "delete" /\ didx > Len(deleted_items)
    /\ IF notifications = <<>>
       THEN pc' = "done" /\ UNCHANGED sends
       ELSE pc' = "sending" /\ sends' = [i \in 1..Len(sends) |-> "inflight"]
    /\ UNCHANGED <<scan, store, idx, order_ids, new_items, notifications,
                   deleted_items, didx, ops, err, run, prev, store0, oob, past, pvars>>

\* fcm/mod.rs:44-50: one request ends, with a response or with an error
SendComplete ==
    /\ pc = "sending"
    /\ \E i \in 1..Len(sends) : \E outcome \in {"ok", "err"} :
          /\ sends[i] = "inflight"
          /\ sends' = [sends EXCEPT ![i] = outcome]
    /\ UNCHANGED <<scan, store, pc, idx, order_ids, new_items, notifications,
                   deleted_items, didx, ops, err, run, prev, store0, oob, past, pvars>>

\* main.rs:162-166
Finish ==
    /\ pc = "sending" /\ JoinAllReady(sends)
    /\ err' = RunResult(sends)
    /\ pc' = IF err' = "none" THEN "done" ELSE "failed"
    /\ UNCHANGED <<scan, store, idx, order_ids, new_items, notifications, sends,
                   deleted_items, didx, ops, run, prev, store0, oob, past, pvars>>

\* the program is started again on the same page
Rerun ==
    /\ pc \in {"done", "failed"} /\ run < MaxRuns
    /\ pc' = "scan" /\ idx' = 1 /\ didx' = 1
    /\ order_ids' = <<>> /\ new_items' = <<>> /\ notifications' = <<>>
    /\ sends' = <<>> /\ deleted_items' = <<>> /\ ops' = <<>> /\ err' = "none"
    /\ run' = run + 1 /\ prev' = pc /\ store0' = store
    /\ past' = IF pc = "done" THEN past \o notifications ELSE past
    /\ UNCHANGED <<scan, store, oob, pvars>>

\* another writer deletes a row between the key listing and the row's lookup
OutOfBandDelete ==
    /\ pc = "delete" /\ oob < MaxOOB
    /\ \E id \in DOMAIN store : store' = Without(store, id)
    /\ oob' = oob + 1
    /\ UNCHANGED <<scan, pc, idx, order_ids, new_items, notifications, sends,
                   deleted_items, didx, ops, err, run, prev, store0, past, pvars>>

ParserIdle ==
    /\ lines = <<>> /\ pos = 0 /\ items = <<>> /\ ppc = "idle"
    /\ item_name_line = <<>> /\ price_line = <<>>
    /\ ended = FALSE /\ restarts = 0 /\ warnings = <<>>

\* main.rs:85-88, after parse_items has returned and the connection is open
Init ==
    /\ scan \in Scans
    /\ store \in Stores
    /\ pc = "scan" /\ idx = 1 /\ didx = 1
    /\ order_ids = <<>> /\ new_items = <<>> /\ notifications = <<>>
    /\ sends = <<>> /\ deleted_items = <<>> /\ ops = <<>> /\ err = "none"
    /\ run = 1 /\ prev = "none" /\ store0 = store /\ oob = 0 /\ past = <<>>
    /\ ParserIdle

Next ==
    \/ ScanStep
    \/ BatchInsert
    \/ ListKeys
    \/ DeleteStep
    \/ Dispatch
    \/ SendComplete
    \/ Finish

Spec == Init /\ [][Next]_vars

NextRerun == Next \/ Rerun

SpecRerun == Init /\ [][NextRerun]_vars

NextOOB == Next \/ OutOfBandDelete

SpecOOB == Init /\ [][NextOOB]_vars

\* ----------------------------------------------------------- parse_items
\* the lines of the pages parse_items is explored on
PageLines ==
    { <<STAR, NL>>,
      SoldLine(1),
      <<"Karambit">>,
      <<NL>>,
      <<PRICE_WORD, ":", " ", "1", ",", "0", "0", "0", YEN>> }

Pages == UNION { [1..n -> PageLines] : n \in 0..MaxLines }

\* parsers.rs:44
IsMarker(t) == Trim(t) = <<STAR>>

\* parsers.rs:43-44: the loop takes line p and looks for the marker
Seek(p) ==
    /\ pos' = p
    /\ ppc' = IF IsMarker(lines[p]) THEN "name" ELSE "seek"

\* a block cut short by the end of the text: parsers.rs:51-53, 58-61, 65-67
Truncated(why) ==
    /\ warnings' = Append(warnings, why)
    /\ ended' = TRUE
    /\ ppc' = "seek"

\* parsers.rs:43, while let Some(t) = lines.next().  After a block was cut
\* short the loop calls next() on an iterator that has already returned None:
\* Iterator leaves open whether it returns None again or resumes, and the
\* tree traversal behind scraper's Text starts over from the first node.
PSeek ==
    /\ ppc = "seek"
    /\ IF ~ended /\ pos < Len(lines)
       THEN Seek(pos + 1) /\ UNCHANGED <<ended, restarts>>
       ELSE \/ ppc' = "done" /\ ended' = TRUE /\ UNCHANGED <<pos, restarts>>
            \/ /\ ended /\ restarts < MaxRestarts /\ Len(lines) > 0
               /\ Seek(1)
               /\ ended' = FALSE
               /\ restarts' = restarts + 1
    /\ UNCHANGED <<lines, items, item_name_line, price_line, warnings, rvars>>

\* parsers.rs:49-55
PName ==
    /\ ppc = "name"
    /\ IF pos < Len(lines)
       THEN /\ item_name_line' = lines[pos + 1]
            /\ pos' = pos + 1
            /\ ppc' = "blank"
            /\ UNCHANGED <<ended, warnings>>
       ELSE /\ Truncated("no item name line found.")
            /\ UNCHANGED <<item_name_line, pos>>
    /\ UNCHANGED <<lines, items, price_line, restarts, rvars>>

\* parsers.rs:57-61
PBlank ==
    /\ ppc = "blank"
    /\ IF pos < Len(lines)
       THEN /\ pos' = pos + 1
            /\ ppc' = "price"
            /\ UNCHANGED <<ended, warnings>>
       ELSE /\ Truncated("no blank line found.")
            /\ UNCHANGED pos
    /\ UNCHANGED <<lines, items, item_name_line, price_line, restarts, rvars>>

\* parsers.rs:63-70
PPrice ==
    /\ ppc = "price"
    /\ IF pos < Len(lines)
       THEN /\ price_line' = lines[pos + 1]
            /\ pos' = pos + 1
            /\ ppc' = "emit"
            /\ UNCHANGED <<ended, warnings>>
       ELSE /\ Truncated("no price line found.")
            /\ UNCHANGED <<price_line, pos>>
    /\ UNCHANGED <<lines, items, item_name_line, restarts, rvars>>

\* parsers.rs:72-80; the unwrap of parsers.rs:154 panics inside the call
Emit(r) ==
    CASE r.tag = "ok" ->
           /\ items' = Append(items, r.v)
           /\ ppc' = "seek"
           /\ UNCHANGED warnings
      [] r.tag = "err" ->
           /\ warnings' = Append(warnings, r.error)
           /\ ppc' = "seek"
           /\ UNCHANGED items
      [] r.tag = "panic" ->
           /\ ppc' = "panic"
           /\ UNCHANGED <<items, warnings>>

PEmit ==
    /\ ppc = "emit"
    /\ Emit(parse_item_section(item_name_line, price_line))
    /\ UNCHANGED <<lines, pos, item_name_line, price_line, ended, restarts, rvars>>

MainIdle ==
    /\ scan = <<>> /\ store = <<>> /\ pc = "idle" /\ idx = 1 /\ didx = 1
    /\ order_ids = <<>> /\ new_items = <<>> /\ notifications = <<>>
    /\ sends = <<>> /\ deleted_items = <<>> /\ ops = <<>> /\ err = "none"
    /\ run = 1 /\ prev = "none" /\ store0 = <<>> /\ oob = 0 /\ past = <<>>

\* parsers.rs:40-41
InitParser ==
    /\ lines \in Pages
    /\ pos = 0 /\ items = <<>> /\ ppc = "seek"
    /\ item_name_line = <<>> /\ price_line = <<>>
    /\ ended = FALSE /\ restarts = 0 /\ warnings = <<>>
    /\ MainIdle

NextParser ==
    \/ PSeek
    \/ PName
    \/ PBlank
    \/ PPrice
    \/ PEmit

SpecParser == InitParser /\ [][NextParser]_vars

\* ----------------------------------------------------- parse_item_section
\* the parts full-item name lines and price lines are written from, each with
\* the text on the page and the value the text stands for
NameParts ==
    { [text |-> <<"AK", "-", "4", "7">>, name |-> <<"AK", "-", "4", "7">>,
       is_stattrak |-> FALSE],
      [text |-> <<"StatTrak", " ", "AWP">>, name |-> <<"AWP">>,
       is_stattrak |-> TRUE],
      [text |-> <<" ", "Desert", " ", "Eagle">>, name |-> <<"Desert", " ", "Eagle">>,
       is_stattrak |-> FALSE] }

KindParts ==
    { <<"Asiimov">>, <<"Case", " ", "Hardened">>, <<"Neo", "-", "Noir">> }

ExteriorParts ==
    { [text |-> <<"Field", "-", "Tested">>, exterior |-> "FT"],
      [text |-> <<"Factory", " ", "New">>, exterior |-> "FN"] }

\* the other three exteriors as the page writes them
OtherExteriorParts ==
    { [text |-> <<"Minimal", " ", "Wear">>, exterior |-> "MW"],
      [text |-> <<"Well", "-", "Worn">>, exterior |-> "WW"],
      [text |-> <<"Battle", "-", "Scarred">>, exterior |-> "BS"] }

\* texts in the place of the exterior that are none of the five: the short
\* codes, other spellings and another word
ForeignExteriorParts ==
    { [text |-> t, exterior |-> "none"] :
        t \in { <<"FN">>, <<"MW">>, <<"FT">>, <<"WW">>, <<"BS">>,
                <<"Factory", "-", "New">>, <<"field", "-", "tested">>,
                <<"Vanilla">> } }

AllExteriorParts == ExteriorParts \cup OtherExteriorParts \cup ForeignExteriorParts

IdParts ==
    { [text |-> <<"1">>, value |-> 1], [text |-> <<"4", "5">>, value |-> 45] }

PriceParts ==
    { [text |-> <<"1", "5", ",", "0", "0", "0">>, value |-> 15000],
      [text |-> <<"2", "5", "0", "0">>, value |-> 2500] }

\* name | kind (exterior) #digits
FullItemLine(n, k, e, d) ==
    n.text \o SEPARATOR \o k \o <<" ", "(">> \o e.text \o <<")", " ", "#">> \o d.text

PriceLine(p) == <<PRICE_WORD, ":", " ">> \o p.text \o <<YEN>>

\* (sold) #digits
SoldMarker(d) == SOLD_LIT \o d.text

\* name lines with the sold marker: alone, with text before it, after it or
\* around it, after a vanilla item, in the second segment, and without digits
MarkerNameLines ==
    UNION { { SoldMarker(d),
              <<"x", " ">> \o SoldMarker(d),
              SoldMarker(d) \o <<"z">>,
              <<"x", " ">> \o SoldMarker(d) \o <<" ", "extra">>,
              VanillaLine(2) \o <<" ">> \o SoldMarker(d),
              <<"AWP">> \o SEPARATOR \o SoldMarker(d) } : d \in IdParts }
    \cup { VanillaLine(2), <<"(", SOLD_WORD, ")">> }

FullItemLines ==
    { FullItemLine(n, k, e, d) :
        n \in NameParts, k \in KindParts, e \in AllExteriorParts, d \in IdParts }

\* parse_items calls parse_item_section on a name line and a price line
InitExtract ==
    /\ item_name_line \in FullItemLines \cup MarkerNameLines
    /\ \E p \in PriceParts : price_line = PriceLine(p)
    /\ ppc = "emit"
    /\ lines = <<>> /\ pos = 0 /\ items = <<>>
    /\ ended = FALSE /\ restarts = 0 /\ warnings = <<>>
    /\ MainIdle

NextExtract == PEmit

SpecExtract == InitExtract /\ [][NextExtract]_vars

\* ---------------------------------------------------------------- claims
ScanIds == { scan[i].order_id : i \in 1..Len(scan) }

EventCount(type, id) ==
    Cardinality({ i \in 1..Len(notifications) :
                    notifications[i].type = type /\ notifications[i].id = id })

Issued(o) == \E k \in 1..Len(ops) : ops[k].op = o

AfterCompletedRun == run >= 2 /\ prev = "done"

\* C1: a run that follows a completed run over the same scan issues no insert,
\* update or delete and collects no notification.
C1_Idempotent ==
    AfterCompletedRun => ops = <<>> /\ notifications = <<>>

\* C4 as stated: for every order id of the scan with a row whose price differs
\* from the scanned price, a completed run collects exactly one price-changed
\* notification and leaves the row at the scanned price.
C4_PriceChangedOriginal ==
    pc = "done" =>
        \A i \in 1..Len(scan) :
            LET id == scan[i].order_id
            IN (id \in DOMAIN store0 /\ store0[id].price # scan[i].price) =>
                  /\ EventCount("price_changed", id) = 1
                  /\ id \in DOMAIN store
                  /\ store[id].price = scan[i].price

C4_Case ==
    /\ pc = "scan" /\ idx <= Len(scan)
    /\ IsSome(scan[idx].item)
    /\ scan[idx].order_id \in DOMAIN store
    /\ store[scan[idx].order_id].price # scan[idx].price

\* the section at idx was processed to its end
C4_Processed == pc = "scan" /\ idx <= Len(scan) /\ idx' = idx + 1

C4_ListingStep ==
    C4_Processed =>
        IF C4_Case
        THEN /\ Len(notifications') = Len(notifications) + 1
             /\ notifications'[Len(notifications')] =
                    [type |-> "price_changed", id |-> scan[idx].order_id,
                     title |-> Display(scan[idx].item[1]),
                     body |-> <<store[scan[idx].order_id].price, scan[idx].price>>]
             /\ store'[scan[idx].order_id].price = scan[idx].price
        ELSE \A k \in 1..Len(notifications') :
                 notifications'[k].type = "price_changed" => k <= Len(notifications)

LastSection(id) == CHOOSE i \in 1..Len(scan) :
    /\ scan[i].order_id = id
    /\ \A j \in 1..Len(scan) : scan[j].order_id = id => j <= i

\* C4 amended: a section that carries a listing and whose order id has, when the
\* section is processed, a row with another price collects exactly one
\* price-changed notification, from the row's price to the scanned price, and
\* sets the row's price to the scanned price; no other section collects a
\* price-changed notification; after a completed run the row of an order id
\* whose last section carries a listing holds the price of that section.
C4_PriceChangedAmended ==
    /\ [](pc = "done" =>
            \A id \in ScanIds :
                IsSome(scan[LastSection(id)].item) =>
                    /\ id \in DOMAIN store
                    /\ store[id].price = scan[LastSection(id)].price)
    /\ [][C4_ListingStep]_vars

C4_Witness ==
    /\ pc = "done"
    /\ \E i \in 1..Len(scan) :
          /\ IsSome(scan[i].item)
          /\ LastSection(scan[i].order_id) = i
          /\ scan[i].order_id \in DOMAIN store0
          /\ store0[scan[i].order_id].price # scan[i].price
          /\ EventCount("price_changed", scan[i].order_id) >= 1
          /\ store[scan[i].order_id].price = scan[i].price

\* C5: a completed run has collected exactly one removed notification for every
\* order id that had a row when the run started and is not in the scan, and the
\* row is gone; at no point is a removed notification collected, a delete
\* issued or a row missing for an order id of the scan.
C5_Removed ==
    /\ pc = "done" =>
          \A id \in (DOMAIN store0) \ ScanIds :
              EventCount("removed", id) = 1 /\ id \notin DOMAIN store
    /\ \A id \in ScanIds :
          /\ EventCount("removed", id) = 0
          /\ \A k \in 1..Len(ops) : ops[k].op = "delete" => ops[k].id # id
          /\ id \in DOMAIN store0 => id \in DOMAIN store

C5_Witness ==
    /\ pc = "done"
    /\ (DOMAIN store0) \ ScanIds # {}
    /\ (DOMAIN store0) \cap ScanIds # {}

\* C6: every processed section with a listing and no row has one
\* new-listing notification and one staged listing; the batch insert is issued
\* only when something was staged, and unless the store fails it leaves, for
\* every staged listing, a row equal to it.
C6_BatchInsertStoresStaged ==
    /\ \A id \in OrderIds \ DOMAIN store0 :
          LET n == Cardinality({ i \in 1..(idx - 1) :
                                   scan[i].order_id = id /\ IsSome(scan[i].item) })
          IN /\ EventCount("new", id) = n
             /\ Cardinality({ k \in 1..Len(new_items) : new_items[k].order_id = id }) = n
    /\ Issued("insert") => new_items # <<>>
    /\ (Issued("insert") /\ err # "insert") =>
          \A i \in 1..Len(new_items) :
              Lookup(store, new_items[i].order_id) = Some(new_items[i])

C7_SoldCase ==
    /\ pc = "scan" /\ idx <= Len(scan)
    /\ ~IsSome(scan[idx].item)
    /\ scan[idx].order_id \in DOMAIN store

\* one iteration over a sold-marker section that has a row
C7_SoldStep ==
    C7_SoldCase =>
        LET id == scan[idx].order_id
        IN IF store[id].has_sold
           THEN notifications' = notifications /\ ops' = ops /\ store' = store
           ELSE pc' = "scan" =>
                   /\ Len(notifications') = Len(notifications) + 1
                   /\ notifications'[Len(notifications')].type = "sold"
                   /\ notifications'[Len(notifications')].id = id
                   /\ Len(ops') = Len(ops) + 1
                   /\ store' = [store EXCEPT ![id] =
                                    [@ EXCEPT !.has_sold = TRUE,
                                              !.price = scan[idx].price]]

SoldEvents(s, id) ==
    Cardinality({ k \in 1..Len(s) : s[k].type = "sold" /\ s[k].id = id })

C7_SoldEventOnce ==
    \A i \in 1..Len(scan) :
        ~IsSome(scan[i].item) =>
            SoldEvents(past \o notifications, scan[i].order_id) <= 1

\* C7: a sold-marker section with a row collects the sold notification and
\* marks the row exactly when has_sold was false, and does nothing when it was
\* true; over the runs on the same scan, the runs that returned Ok and the
\* current one have collected at most one sold notification for a sold-marker
\* section.
C7_SoldOnce ==
    [][C7_SoldStep /\ C7_SoldEventOnce']_vars

C8_MissingCase ==
    /\ pc = "delete" /\ didx <= Len(deleted_items)
    /\ deleted_items[didx] \notin DOMAIN store

\* C8: when the lookup of a key of the deletion list succeeds and
\* returns no row, the run ends with the item-not-found error and, from that
\* lookup on, no statement is issued, no key processed and no notification
\* collected.
C8_AbortOnMissingRow ==
    [][(C8_MissingCase /\ (pc' # pc \/ didx' # didx)) =>
          /\ pc' = "failed" /\ didx' = didx
          /\ err' = "lookup" \/ err' = "notfound"
          /\ ops' = ops /\ store' = store /\ notifications' = notifications]_vars

Started(i) == sends[i] # "created"

\* C9: a request is in flight or has ended only once main is at join_all or has
\* returned Ok, and from the first such request on no statement is issued and
\* the table does not change; at join_all every collected request has been
\* started, and main returns Ok only when every one has ended.
C9_DispatchOrdering ==
    /\ [](/\ (\E i \in 1..Len(sends) : Started(i)) => pc \in {"sending", "done"}
          /\ pc \in {"sending", "done"} => \A i \in 1..Len(sends) : Started(i)
          /\ pc = "done" => \A i \in 1..Len(sends) : sends[i] \in {"ok", "err"}
          /\ Len(sends) = Len(notifications))
    /\ [][(\E i \in 1..Len(sends) : Started(i)) =>
              (ops' = ops /\ store' = store /\ notifications' = notifications)]_vars

C9_Witness ==
    /\ pc = "done" /\ Len(sends) >= 2
    /\ Issued("update") /\ Issued("delete")
    /\ \E i, j \in 1..Len(sends) : sends[i] = "ok" /\ sends[j] = "err"

\* C10: once main is at join_all, whatever the requests return, the run never
\* ends in an error and the table is left as it was: a step is always possible
\* until main has returned, and it returns Ok.
C10_SendFailuresSwallowed ==
    /\ [](pc = "sending" => ENABLED (SendComplete \/ Finish))
    /\ [][pc = "sending" =>
              /\ pc' \in {"sending", "done"}
              /\ err' = "none"
              /\ store' = store]_vars

C10_Witness ==
    /\ pc = "done" /\ err = "none" /\ ops # <<>>
    /\ \A i \in 1..Len(sends) : sends[i] = "err"
    /\ Len(sends) >= 2

\* C2: parse_items never fails; whatever a block holds, the parser
\* drops it at worst and goes on.
C2_ParserNeverFails == ppc # "panic"

WellFormedAt(i) ==
    /\ i + 3 <= Len(lines)
    /\ IsMarker(lines[i])
    /\ parse_item_section(lines[i + 1], lines[i + 3]).tag = "ok"

\* C3: when parse_items has returned, every marker line whose next
\* three lines make a block the extractor accepts has its section in the
\* result.
C3_Resynchronises ==
    ppc = "done" =>
        \A i \in 1..Len(lines) :
            WellFormedAt(i) =>
                parse_item_section(lines[i + 1], lines[i + 3]).v \in Range(items)

\* the statement op is about the row of order id
Touches(op, id) ==
    IF op.op = "insert"
    THEN \E k \in 1..Len(op.rows) : op.rows[k].order_id = id
    ELSE op.id = id

NoTrace(id) ==
    /\ \A k \in 1..Len(notifications) : notifications[k].id # id
    /\ \A k \in 1..Len(ops) : ~Touches(ops[k], id)
    /\ id \notin DOMAIN store

\* C11 as stated: once a sold-marker section whose order id had no row has been
\* processed, the run has collected no notification and issued no statement
\* for that order id, and the table holds no row for it.
C11_UntrackedOriginal ==
    \A i \in 1..Len(scan) :
        (/\ pc \in {"scan", "list", "delete", "sending", "done"}
         /\ (pc = "scan" => i < idx)
         /\ ~IsSome(scan[i].item)
         /\ scan[i].order_id \notin DOMAIN store0) => NoTrace(scan[i].order_id)

C11_Case ==
    /\ pc = "scan" /\ idx <= Len(scan)
    /\ ~IsSome(scan[idx].item)
    /\ scan[idx].order_id \notin DOMAIN store

OnlySoldMarkers(id) ==
    \A i \in 1..Len(scan) : scan[i].order_id = id => ~IsSome(scan[i].item)

\* C11 amended: processing a sold-marker section whose order id has no row
\* collects no notification, issues no statement, stages nothing and leaves
\* the table as it is; when every section of that order id in the scan is a
\* sold marker and it had no row when the run started, the run collects no
\* notification and issues no statement for it and the table never holds a
\* row for it.
C11_UntrackedAmended ==
    /\ [](\A id \in ScanIds :
             (OnlySoldMarkers(id) /\ id \notin DOMAIN store0) => NoTrace(id))
    /\ [][(C11_Case /\ (idx' # idx \/ pc' # pc)) =>
              /\ notifications' = notifications /\ sends' = sends
              /\ ops' = ops /\ store' = store /\ new_items' = new_items
              /\ pc' = "scan" => idx' = idx + 1]_vars

C11_Witness ==
    /\ pc = "done" /\ ops # <<>> /\ notifications # <<>>
    /\ \E id \in ScanIds : OnlySoldMarkers(id) /\ id \notin DOMAIN store0

\* the sections of one pass over the lines ls from line p on, front to back
RECURSIVE SinglePass(_, _)
SinglePass(ls, p) ==
    IF p > Len(ls) THEN <<>>
    ELSE IF ~IsMarker(ls[p]) THEN SinglePass(ls, p + 1)
    ELSE IF p + 3 > Len(ls) THEN <<>>
    ELSE IF parse_item_section(ls[p + 1], ls[p + 3]).tag = "ok"
         THEN <<parse_item_section(ls[p + 1], ls[p + 3]).v>> \o SinglePass(ls, p + 4)
         ELSE SinglePass(ls, p + 4)

\* C12: no line is read a second time, and when parse_items returns, its result
\* is the sequence of the accepted blocks of one pass over the lines, front to
\* back, in the order of their marker lines.
C12_SinglePassInOrder ==
    /\ restarts = 0
    /\ ppc = "done" => items = SinglePass(lines, 1)

ListingOK(r) == IsSome(r.exterior) <=> IsSome(r.kind)

\* C13: the exterior is present exactly when the kind is, in every listing the
\* extractor handed to main, in every staged listing and, the table having
\* started so, in every row of the table at every point of a run.
C13_ListingInvariant ==
    /\ \A i \in 1..Len(scan) : IsSome(scan[i].item) => ListingOK(scan[i].item[1])
    /\ \A k \in 1..Len(new_items) : ListingOK(new_items[k])
    /\ \A id \in DOMAIN store : ListingOK(store[id])

C13_Witness ==
    /\ pc = "done"
    /\ \A id \in DOMAIN store0 : ListingOK(store0[id])
    /\ \E id \in DOMAIN store \cap DOMAIN store0 :
          IsSome(store0[id].kind) /\ ~IsSome(store[id].kind)
    /\ \E id \in DOMAIN store \ DOMAIN store0 : IsSome(store[id].kind)

\* the section the parts of a full-item block stand for
Written(n, k, e, d, p) ==
    [item |-> Some([order_id |-> d.value, name |-> n.name, kind |-> Some(k),
                    exterior |-> Some(e.exterior), price |-> p.value,
                    has_sold |-> FALSE, is_stattrak |-> n.is_stattrak]),
     order_id |-> d.value,
     price |-> p.value]

\* C14: once the extractor has been applied to a full-item name line and a
\* price line, the result is the section with exactly the name, kind,
\* exterior, order id and price written in the lines.
C14_FullItemExact ==
    \A n \in NameParts, k \in KindParts, e \in ExteriorParts, d \in IdParts,
       p \in PriceParts :
        (/\ ppc # "emit"
         /\ item_name_line = FullItemLine(n, k, e, d)
         /\ price_line = PriceLine(p)) =>
            items = <<Written(n, k, e, d, p)>>

NewIds ==
    { scan[i].order_id : i \in { j \in 1..Len(scan) :
          IsSome(scan[j].item) /\ scan[j].order_id \notin DOMAIN store0 } }

\* C15: after a completed run the keys of the table are the keys it had when
\* the run started that occur in the scan, and the order ids of the sections
\* that carry a listing and had no row; every key occurs in the scan; and at
\* no point of a run is a delete issued for a staged listing.
C15_StoreKeysTrackScan ==
    /\ pc = "done" =>
          /\ DOMAIN store = (DOMAIN store0 \cap ScanIds) \cup NewIds
          /\ DOMAIN store \subseteq ScanIds
    /\ \A k \in 1..Len(ops) : \A j \in 1..Len(new_items) :
          ops[k].op = "delete" => ops[k].id # new_items[j].order_id

C15_Witness ==
    /\ pc = "done"
    /\ NewIds # {}
    /\ DOMAIN store0 \ ScanIds # {}
    /\ DOMAIN store = NewIds

C16_Case ==
    /\ pc = "scan" /\ idx <= Len(scan)
    /\ IsSome(scan[idx].item)
    /\ scan[idx].order_id \in DOMAIN store
    /\ store[scan[idx].order_id].price = scan[idx].price

\* C16: processing a section that carries a listing and whose row has the same
\* price collects no notification and leaves the name, kind, exterior and
\* is_stattrak of the row equal to the listing's; when the row already equals
\* the listing in every field, no statement is issued.
C16_SamePriceSync ==
    [][(C16_Case /\ (idx' # idx \/ pc' # pc)) =>
          /\ notifications' = notifications
          /\ pc' = "scan" =>
                 LET row == store'[scan[idx].order_id]
                     found == scan[idx].item[1]
                 IN /\ row.name = found.name /\ row.kind = found.kind
                    /\ row.exterior = found.exterior
                    /\ row.is_stattrak = found.is_stattrak
          /\ store[scan[idx].order_id] = scan[idx].item[1] => ops' = ops]_vars

StoreFailures == {"lookup", "update", "insert", "dup", "load", "delete"}

\* the table after the statements of stmts, applied in order to t
RECURSIVE Replay(_, _)
Replay(t, stmts) ==
    IF stmts = <<>> THEN t
    ELSE LET op == stmts[1]
         IN Replay(CASE op.op = "update" -> UpdateAll(t, op.row)
                     [] op.op = "mark_sold" -> UpdateSold(t, op.id, op.price)
                     [] op.op = "insert" -> InsertAll(t, op.rows)
                     [] op.op = "delete" -> Without(t, op.id),
                   Tail(stmts))

\* the statements that took effect: all but a failed last one
Applied ==
    IF err \in {"update", "insert", "dup", "delete"}
    THEN SubSeq(ops, 1, Len(ops) - 1)
    ELSE ops

\* C17: a run in which a store operation has failed has ended with that
\* failure and takes no further step; the step in which the operation fails
\* issues at most that one statement and changes no row; and the table is then
\* the table of the start of the run with the statements issued before the
\* failure applied.
C17_StoreFailureFatal ==
    /\ [](err \in StoreFailures =>
             /\ pc = "failed"
             /\ ~ENABLED Next
             /\ store = Replay(store0, Applied))
    /\ [][err' \in StoreFailures =>
              /\ err = "none"
              /\ store' = store
              /\ Len(ops') <= Len(ops) + 1
              /\ \A k \in 1..Len(ops) : ops'[k] = ops[k]]_vars

C17_Witness ==
    /\ pc = "failed" /\ err = "delete"
    /\ Len(ops) >= 2 /\ store # store0
    /\ notifications # <<>>

\* C18: in a run that has ended with a store failure or with the
\* item-not-found error, no request has been started, whatever was collected
\* and whatever was already applied to the table.
C18_NoSendOnAbort ==
    (pc = "failed" \/ err # "none") =>
        /\ Len(sends) = Len(notifications)
        /\ \A i \in 1..Len(sends) : sends[i] = "created"

C18_Witness ==
    /\ pc = "failed" /\ err = "notfound"
    /\ store # store0
    /\ \E k \in 1..Len(ops) : ops[k].op # "delete"
    /\ notifications # <<>>

EachIdOnce ==
    \A i, j \in 1..Len(scan) : scan[i].order_id = scan[j].order_id => i = j

SectionOf(id) == scan[CHOOSE i \in 1..Len(scan) : scan[i].order_id = id]

C19_Relisted(id) ==
    /\ id \in DOMAIN store0 /\ store0[id].has_sold
    /\ IsSome(SectionOf(id).item)

\* C19: after a completed run over a scan in which no order id occurs twice,
\* a row has has_sold = true exactly when its section is a sold marker; a row
\* that was marked sold and is scanned with a listing has has_sold = false,
\* and no notification was collected for it when the price is the same.
C19_HasSoldFollowsScan ==
    (pc = "done" /\ EachIdOnce) =>
        \A id \in DOMAIN store :
            /\ id \in ScanIds
            /\ store[id].has_sold <=> ~IsSome(SectionOf(id).item)
            /\ (C19_Relisted(id) /\ store0[id].price = SectionOf(id).price) =>
                   \A k \in 1..Len(notifications) : notifications[k].id # id

C19_Witness ==
    /\ pc = "done" /\ EachIdOnce /\ Len(scan) = 2
    /\ \E id \in DOMAIN store :
          /\ C19_Relisted(id) /\ store0[id].price = SectionOf(id).price
          /\ ~store[id].has_sold
    /\ \E id \in DOMAIN store : ~store0[id].has_sold /\ store[id].has_sold

\* a is b with some elements left out
RECURSIVE IsSubseq(_, _)
IsSubseq(a, b) ==
    IF a = <<>> THEN TRUE
    ELSE IF b = <<>> THEN FALSE
    ELSE IF a[1] = b[1] THEN IsSubseq(Tail(a), Tail(b))
    ELSE IsSubseq(a, Tail(b))

IdsOf(s) == [k \in 1..Len(s) |-> s[k].id]

ScanEvents == SelectSeq(notifications, LAMBDA e : e.type # "removed")

RemovedEvents == SelectSeq(notifications, LAMBDA e : e.type = "removed")

\* the sections main has gone through, and the keys of the deletion list it
\* has gone through
SectionsDone == IF pc = "scan" THEN SubSeq(scan, 1, idx - 1) ELSE scan

KeysDone == IF pc = "delete" THEN SubSeq(deleted_items, 1, didx - 1) ELSE deleted_items

\* C20: the notifications of a run are the price-changed, sold and new-listing
\* notifications, at most one for a section and in the order of the sections,
\* followed by the removed notifications in the order of the deletion list,
\* which is the order of the key list; a step only appends to them, and at most
\* one.
C20_EventOrdering ==
    /\ [](/\ notifications = ScanEvents \o RemovedEvents
          /\ IsSubseq(IdsOf(ScanEvents),
                      [k \in 1..Len(SectionsDone) |-> SectionsDone[k].order_id])
          /\ RemovedEvents # <<>> => pc \in {"delete", "sending", "done", "failed"}
          /\ pc # "failed" => IdsOf(RemovedEvents) = KeysDone)
    /\ [][/\ Len(notifications') <= Len(notifications) + 1
          /\ SubSeq(notifications', 1, Len(notifications)) = notifications]_vars

C20_Witness ==
    /\ pc = "done" /\ Len(scan) = 2
    /\ Len(ScanEvents) = 2 /\ Len(RemovedEvents) = 1
    /\ ScanEvents[1].type # ScanEvents[2].type

\* the text has ended inside a block and the block was dropped with a warning
C21_Truncated ==
    /\ ppc = "seek" /\ ended
    /\ warnings # <<>>
    /\ warnings[Len(warnings)] \in {"no item name line found.",
                                     "no blank line found.",
                                     "no price line found."}

\* C21: when the text has ended inside a block, the step that follows is the
\* return of parse_items, with the sections pushed before the block and no
\* line read again.
C21_TruncationEnds ==
    [][(C21_Truncated /\ pvars' # pvars) =>
          /\ ppc' = "done"
          /\ items' = items
          /\ pos' = pos]_vars

ShortCodes == {"FN", "MW", "FT", "WW", "BS"}

\* the extractor has been applied to the full-item line written from the parts
C22_Extracted(n, k, e, d, p) ==
    /\ ppc # "emit"
    /\ item_name_line = FullItemLine(n, k, e, d)
    /\ price_line = PriceLine(p)

C22_Accepted(code) ==
    /\ warnings = <<>>
    /\ Len(items) = 1
    /\ IsSome(items[1].item)
    /\ items[1].item[1].exterior = Some(code)

C22_Rejected(text) ==
    /\ items = <<>>
    /\ warnings = <<"InvalidExterior">>
    /\ parse_item_section(item_name_line, price_line) = Err("InvalidExterior", text)

C23_WholeLineSold(line) ==
    /\ Len(line) > Len(SOLD_LIT)
    /\ SubSeq(line, 1, Len(SOLD_LIT)) = SOLD_LIT
    /\ \A i \in (Len(SOLD_LIT) + 1)..Len(line) : IsDigit(line[i])

C23_MarkerDigits(line) == SubSeq(line, Len(SOLD_LIT) + 1, Len(line))

\* C23: the extractor returns a section with no listing only when the whole
\* name line is the sold marker followed by #digits, and then order_id is the
\* value of those digits; a name line with other text before or after the
\* marker does not give a section without a listing.
C23_SoldOnlyWholeLine ==
    (ppc # "emit" /\ items # <<>> /\ items[1].item = None) =>
        /\ C23_WholeLineSold(item_name_line)
        /\ Some(items[1].order_id) = ParseI32(C23_MarkerDigits(item_name_line))

\* the extractor has returned the section of a name line that is the sold
\* marker alone
C23_WholeLineCase ==
    /\ ppc = "seek"
    /\ C23_WholeLineSold(item_name_line)
    /\ Len(items) = 1 /\ items[1].item = None
    /\ Some(items[1].order_id) = ParseI32(C23_MarkerDigits(item_name_line))

=============================================================================
